---------------------------- MODULE Spec2Model ----------------------------
(***************************************************************************)
(* A model of the smart-tourist-guide trip planner.                        *)
(*                                                                         *)
(*   - the day-bucketing of the trip page (getPlacesByDay),                *)
(*   - the validation of a generative-service reply (getGeminiSuggestions),*)
(*   - the planning page's two asynchronous handlers (handleGeneratePlan,  *)
(*     handleChatSubmit), the trip page's annotation write-back            *)
(*     (updatePlaceInSupabase) and the trips table they share.             *)
(*                                                                         *)
(* A JavaScript object is a TLA+ record; a property the object does not    *)
(* have is a field the record does not have.                               *)
(***************************************************************************)
EXTENDS Integers, Sequences, FiniteSets, TLC

VARIABLES
    \* ---- getPlacesByDay (trip page) ----
    bPlaces,          \* argument places
    bDuration,        \* argument duration
    dailyItinerary,   \* the value returned
    bPc,              \* "input" | "returned"
    \* ---- getGeminiSuggestions: one reply of the generative service ----
    eApiKey,          \* whether NEXT_PUBLIC_GEMINI_API_KEY is set
    eReply,           \* the HTTP reply
    eResult,          \* what the call gave its caller
    ePc,              \* "called" | "fetching" | "settled"
    \* ---- the trips table (Supabase) ----
    trips,            \* the rows, in insertion order; a row's id is its position
    \* ---- planning page (InnerPlanTripPage) ----
    loadingPlan,
    chatLoading,
    formMessageType,  \* "none" | "success" | "error"
    formMessage,      \* which message is shown, "none" for null
    suggestedPlaces,
    currentTripId,    \* 0 is null
    chatHistory,
    gen,              \* the running handleGeneratePlan
    chat,             \* the running handleChatSubmit
    inFlight,         \* the plan page's running requests, oldest first
    overtaken,        \* running requests that a later-started request has outrun
    \* ---- trip page (TripDetailPage) ----
    trip,             \* the trip in memory; id 0 is null
    savingNotes,
    error,            \* "none" | "saveFailed" | "unexpected"
    annot,            \* the running updatePlaceInSupabase
    \* ---- map page (ViewMapPage) ----
    mapTrip,          \* the trip loaded
    orsApiKey,        \* whether NEXT_PUBLIC_ORS_API_KEY is set
    markers,
    routeCoordinates,
    mapError,
    loadingMapData,
    mapCenter,
    runs,             \* the runs of addMarkersAndRoute
    \* ---- the trip page open in several tabs ----
    tabs

bucketVars == <<bPlaces, bDuration, dailyItinerary, bPc>>
engineVars == <<eApiKey, eReply, eResult, ePc>>
planVars == <<loadingPlan, chatLoading, formMessageType, formMessage, suggestedPlaces, currentTripId,
              chatHistory, gen, chat, inFlight, overtaken>>
tripPageVars == <<trip, savingNotes, error, annot>>
appVars == <<trips, planVars, tripPageVars>>
mapVars == <<mapTrip, orsApiKey, markers, routeCoordinates, mapError, loadingMapData, mapCenter,
             runs>>
pureVars == <<bucketVars, engineVars, mapVars, tabs>>

(***************************************************************************)
(* Bounds of the model.                                                    *)
(***************************************************************************)
MaxBucketPlaces == 7
MaxDays == 4
MaxReplyItems == 2
MaxPlaces == 2
MaxTrips == 2
MaxTurns == 4
MaxRuns == 1
MaxTabs == 2

(***************************************************************************)
(* Places.  The generative service answers with name, description and      *)
(* time_to_visit; notes and visited are added by the trip page.            *)
(***************************************************************************)
PlaceA == [name |-> "A", description |-> "dA", time_to_visit |-> "1h"]
PlaceB == [name |-> "B", description |-> "dB", time_to_visit |-> "2h"]
GeneratedPlaces == {PlaceA, PlaceB}

RECURSIVE SeqsUpTo(_, _)
SeqsUpTo(S, n) ==
    IF n = 0 THEN {<<>>}
    ELSE LET shorter == SeqsUpTo(S, n - 1)
         IN  shorter \cup {Append(s, x) : s \in {t \in shorter : Len(t) = n - 1}, x \in S}

RECURSIVE Concat(_)
Concat(ss) == IF ss = <<>> THEN <<>> ELSE Head(ss) \o Concat(Tail(ss))

Min(a, b) == IF a < b THEN a ELSE b

(***************************************************************************)
(* getPlacesByDay                                                          *)
(***************************************************************************)
\* Math.ceil(a / b) for a >= 0, b > 0
MathCeilDiv(a, b) == IF a % b = 0 THEN a \div b ELSE (a \div b) + 1

PlacesPerDayFloor(places, duration) == Len(places) \div duration
PlacesPerDayFloorPlusOne(places, duration) == (Len(places) \div duration) + 1
\* const placesPerDay = Math.ceil(places.length / duration)
PlacesPerDay(places, duration) == MathCeilDiv(Len(places), duration)

\* The inner for loop of one day: i counts the pushes tried, acc is
\* <<dailyItinerary[day], placeIndex>>.
RECURSIVE FillDay(_, _, _, _)
FillDay(places, placesPerDay, i, acc) ==
    IF i < placesPerDay /\ acc[2] < Len(places)
    THEN FillDay(places, placesPerDay, i + 1,
                 <<Append(acc[1], places[acc[2] + 1]), acc[2] + 1>>)
    ELSE acc

\* The outer for loop: day runs from 0 to duration - 1; itinerary holds the
\* days filled so far and placeIndex is carried from day to day.
RECURSIVE FillDays(_, _, _, _, _, _)
FillDays(places, duration, placesPerDay, day, placeIndex, itinerary) ==
    IF day < duration
    THEN LET filled == FillDay(places, placesPerDay, 0, <<itinerary[day + 1], placeIndex>>)
         IN  FillDays(places, duration, placesPerDay, day + 1, filled[2],
                      [itinerary EXCEPT ![day + 1] = filled[1]])
    ELSE itinerary

getPlacesByDay(places, duration) ==
    LET empty == [d \in 1..duration |-> <<>>]      \* Array.from({ length: duration }, () => [])
    IN  IF Len(places) = 0 THEN empty
        ELSE FillDays(places, duration, PlacesPerDay(places, duration), 0, 0, empty)

\* trip.duration is whatever number the row holds: the planning form rejects
\* an empty or zero duration, not a negative one.
Durations == (-1)..MaxDays

BucketInit ==
    /\ bPlaces \in SeqsUpTo(GeneratedPlaces, MaxBucketPlaces)
    /\ bDuration \in Durations
    /\ dailyItinerary = <<>>
    /\ bPc = "input"

BucketCall ==
    /\ bPc = "input"
    /\ dailyItinerary' = getPlacesByDay(bPlaces, bDuration)
    /\ bPc' = "returned"
    /\ UNCHANGED <<bPlaces, bDuration>>
    /\ UNCHANGED <<engineVars, trips, planVars, tripPageVars, mapVars, tabs>>

BucketNext == BucketCall

(***************************************************************************)
(* getGeminiSuggestions: the reply of the generative service and what the  *)
(* function makes of it.                                                   *)
(*                                                                         *)
(* An element of the parsed array is                                       *)
(*   [type  |-> "object", "null" (the value null) or "number",            *)
(*    str   |-> the element's properties that hold a string, as a record,  *)
(*    other |-> the names of its properties that hold something else].     *)
(***************************************************************************)
PropNames == {"name", "description", "time_to_visit"}

\* "p" in item
HasProp(item, p) == p \in (DOMAIN item.str) \cup item.other
\* typeof item.p === "string"
IsStringProp(item, p) == p \in DOMAIN item.str

NameValues == {"", "A"}
DescriptionValues == {"", "dA"}
TimeValues == {"1h"}

\* The values a property can take in a reply: a string, something that is
\* no string ("other"), or not there at all ("absent").
PropChoices(values) == {<<"string", v>> : v \in values} \cup {<<"other", "">>, <<"absent", "">>}

ObjectOf(n, d, t) ==
    LET choice == [p \in PropNames |->
                     IF p = "name" THEN n ELSE IF p = "description" THEN d ELSE t]
    IN  [type  |-> "object",
         str   |-> [p \in {q \in PropNames : choice[q][1] = "string"} |-> choice[p][2]],
         other |-> {q \in PropNames : choice[q][1] = "other"}]

NullItem == [type |-> "null", str |-> [p \in {} |-> ""], other |-> {}]
NumberItem == [type |-> "number", str |-> [p \in {} |-> ""], other |-> {}]

ReplyItems ==
    {ObjectOf(n, d, t) : n \in PropChoices(NameValues),
                         d \in PropChoices(DescriptionValues),
                         t \in PropChoices(TimeValues)}
    \cup {NullItem, NumberItem}

\* The text of the first part of the first candidate: it parses as JSON or
\* not, and the value it parses to is an array or not.
JsonText(syntaxOk, isArray, items) == [syntaxOk |-> syntaxOk, isArray |-> isArray, items |-> items]
NoText == JsonText(FALSE, FALSE, <<>>)

HttpReply(status, hasContent, text) == [status |-> status, hasContent |-> hasContent, text |-> text]

Return(value) == [ok |-> TRUE, value |-> value]
Throw(err) == [ok |-> FALSE, error |-> err]

\* parsedJson.every((item) => typeof item === "object" && item !== null && ...)
ItemOkNoTime(item) ==
    /\ item.type = "object"
    /\ HasProp(item, "name") /\ IsStringProp(item, "name")
    /\ HasProp(item, "description") /\ IsStringProp(item, "description")
ItemOk(item) ==
    /\ item.type = "object"
    /\ HasProp(item, "name") /\ IsStringProp(item, "name")
    /\ HasProp(item, "description") /\ IsStringProp(item, "description")
    /\ HasProp(item, "time_to_visit") /\ IsStringProp(item, "time_to_visit")

\* The array the caller gets: the parsed objects themselves.
AsPlaces(items) == [i \in 1..Len(items) |-> items[i].str]

getGeminiSuggestionsNothingOnNoContent(apiKey, reply) ==
    IF ~apiKey THEN Throw("noApiKey")
    ELSE IF reply.status = 503 THEN Throw("overloaded")
    ELSE IF reply.status # 200 THEN Throw("requestFailed")
    ELSE IF ~reply.hasContent THEN Return(<<>>)
    ELSE IF ~reply.text.syntaxOk THEN Throw("parseFailed")
    ELSE IF reply.text.isArray /\ \A i \in 1..Len(reply.text.items) : ItemOk(reply.text.items[i])
         THEN Return(AsPlaces(reply.text.items))
         ELSE Throw("parseFailed")
getGeminiSuggestions(apiKey, reply) ==
    IF ~apiKey THEN Throw("noApiKey")
    ELSE IF reply.status = 503 THEN Throw("overloaded")
    ELSE IF reply.status # 200 THEN Throw("requestFailed")
    ELSE IF ~reply.hasContent THEN Throw("noContent")
    ELSE IF ~reply.text.syntaxOk THEN Throw("parseFailed")          \* JSON.parse throws
    ELSE IF reply.text.isArray /\ \A i \in 1..Len(reply.text.items) : ItemOk(reply.text.items[i])
         THEN Return(AsPlaces(reply.text.items))
         ELSE Throw("parseFailed")       \* the inner catch rethrows the "unparseable plan" error

EngineReplies ==
    {HttpReply(503, FALSE, NoText), HttpReply(500, FALSE, NoText), HttpReply(200, FALSE, NoText),
     HttpReply(200, TRUE, NoText), HttpReply(200, TRUE, JsonText(TRUE, FALSE, <<>>))}
    \cup {HttpReply(200, TRUE, JsonText(TRUE, TRUE, items)) : items \in SeqsUpTo(ReplyItems, MaxReplyItems)}

EngineInit ==
    /\ eApiKey \in BOOLEAN
    /\ eReply \in EngineReplies
    /\ eResult = Throw("pending")
    /\ ePc = "called"

\* With a key the function reaches its one fetch and awaits the reply.
EngineFetch ==
    /\ ePc = "called"
    /\ eApiKey
    /\ ePc' = "fetching"
    /\ UNCHANGED <<eApiKey, eReply, eResult>>
    /\ UNCHANGED <<bucketVars, trips, planVars, tripPageVars, mapVars, tabs>>

\* The function returns or throws: without a key before any fetch, else on
\* the reply.
EngineSettle ==
    /\ IF eApiKey THEN ePc = "fetching" ELSE ePc = "called"
    /\ eResult' = getGeminiSuggestions(eApiKey, eReply)
    /\ ePc' = "settled"
    /\ UNCHANGED <<eApiKey, eReply>>
    /\ UNCHANGED <<bucketVars, trips, planVars, tripPageVars, mapVars, tabs>>

EngineNext == EngineFetch \/ EngineSettle


(***************************************************************************)
(* The trips table.  A request to it carries the filters of the query:     *)
(* id is the .eq("id", ...) filter and user_id the .eq("user_id", ...)     *)
(* filter, NoFilter when the query has none.                               *)
(***************************************************************************)
User == "u1"
NoFilter == "*"

NoRequest == [to |-> "none", op |-> "none", id |-> 0, user_id |-> NoFilter, body |-> <<>>]
TripsRequest(op, id, user_id, body) ==
    [to |-> "trips", op |-> op, id |-> id, user_id |-> user_id, body |-> body]
GeminiRequest(contents) ==
    [to |-> "gemini", op |-> "generateContent", id |-> 0, user_id |-> NoFilter, body |-> contents]

TripRow(id, places) ==
    [id |-> id, user_id |-> User, destination |-> "Paris", suggested_places |-> places]

\* The rows a query with these filters matches.
RowMatches(row, req) ==
    /\ row.id = req.id
    /\ req.user_id = NoFilter \/ row.user_id = req.user_id

\* .update({ suggested_places: body }) with the filters of req
UpdateRowsAppend(rows, req) ==
    [i \in 1..Len(rows) |->
        IF RowMatches(rows[i], req)
        THEN [rows[i] EXCEPT !.suggested_places = rows[i].suggested_places \o req.body]
        ELSE rows[i]]
UpdateRows(rows, req) ==
    [i \in 1..Len(rows) |->
        IF RowMatches(rows[i], req) THEN [rows[i] EXCEPT !.suggested_places = req.body]
        ELSE rows[i]]

(***************************************************************************)
(* Conversation turns.  The text of a turn is kept as what it was built    *)
(* from: its kind and the place list written into it.                      *)
(***************************************************************************)
Turn(role, kind, places) == [role |-> role, kind |-> kind, places |-> places]

\* { role: "user", parts: [{ text: prompt }] }
PromptTurn == Turn("user", "prompt", <<>>)
\* { role: "model", parts: [{ text: JSON.stringify(initialSuggestedPlaces, null, 2) }] }
JsonTurnOfNothing(places) == Turn("model", "json", <<>>)
JsonTurn(places) == Turn("model", "json", places)
\* { role: "user", parts: [{ text: chatInput }] }
UserMessage == Turn("user", "chat", <<>>)
RefinedTurn == Turn("model", "refined", <<>>)
SaveFailedTurn == Turn("model", "saveFailed", <<>>)
ErrorTurn == Turn("model", "error", <<>>)
\* the base prompt, which lists the names of the current suggestions
BasePromptTurn(places) == Turn("user", "basePrompt", places)

\* geminiChatHistory: the history mapped turn by turn, then the base prompt pushed
GeminiContents(fullChatHistory, currentPlaces) ==
    Append(fullChatHistory, BasePromptTurn(currentPlaces))

(***************************************************************************)
(* The replies of the generative service on the planning page: the lists   *)
(* of generated places and the failures.                                   *)
(***************************************************************************)
AsItem(place) == [type |-> "object", str |-> place, other |-> {}]

\* The lists the service generates here name no place twice.
GeneratedLists ==
    {ps \in SeqsUpTo(GeneratedPlaces, MaxPlaces) :
        \A i, j \in 1..Len(ps) : ps[i] = ps[j] => i = j}

PlanReplies ==
    {HttpReply(503, FALSE, NoText), HttpReply(200, TRUE, NoText),
     HttpReply(200, TRUE, JsonText(TRUE, TRUE, <<NullItem>>))}
    \cup {HttpReply(200, TRUE, JsonText(TRUE, TRUE, [i \in 1..Len(ps) |-> AsItem(ps[i])])) :
            ps \in GeneratedLists}

(***************************************************************************)
(* handleGeneratePlan                                                      *)
(***************************************************************************)
GenIdle == [pc |-> "idle", places |-> <<>>, request |-> NoRequest]
ChatIdle ==
    [pc |-> "idle", tripId |-> 0, newChatHistory |-> <<>>, latestPlaces |-> <<>>,
     refined |-> <<>>, request |-> NoRequest]

Without(seq, x) == SelectSeq(seq, LAMBDA y : y # x)
\* What a request that ends now has outrun: everything started before it
\* that is still running.
Before(seq, x) == {seq[i] : i \in {j \in 1..Len(seq) : \E k \in (j + 1)..Len(seq) : seq[k] = x}}

Started(x) ==
    /\ inFlight' = Append(inFlight, x)
    /\ overtaken' = overtaken \ {x}
Ended(x) ==
    /\ inFlight' = Without(inFlight, x)
    /\ overtaken' = (overtaken \cup Before(inFlight, x)) \ {x}

\* The form at the time of a submit: the signed-in user and the fields the
\* handler looks at.
CompleteForm ==
    [user |-> <<User>>, startingPoint |-> <<"Home">>, destination |-> <<"Paris">>,
     travelDate |-> <<"2025-06-01">>, duration |-> <<3>>, interests |-> <<"food">>]
\* Every field holds <<>> (null, "", 0, []) or <<value>>.  The forms are the
\* complete one, the ones with one field empty and the one with all empty.
Forms ==
    {CompleteForm, [f \in DOMAIN CompleteForm |-> <<>>]}
    \cup {[CompleteForm EXCEPT ![f] = <<>>] : f \in DOMAIN CompleteForm}

\* The three checks of handleGeneratePlan in their order; "none" when the
\* form passes them.
ValidationMessageWithoutInterests(form) ==
    IF form.user = <<>> THEN "login"
    ELSE IF form.startingPoint = <<>> \/ form.destination = <<>> \/ form.travelDate = <<>>
            \/ form.duration = <<>>
         THEN "details"
    ELSE "none"
ValidationMessage(form) ==
    IF form.user = <<>> THEN "login"
    ELSE IF form.startingPoint = <<>> \/ form.destination = <<>> \/ form.travelDate = <<>>
            \/ form.duration = <<>>
         THEN "details"
    ELSE IF Len(form.interests) = 0 THEN "interests"
    ELSE "none"

\* handleGeneratePlan(e) up to its first await, on the form as it is at the
\* submit: the message and the lists are cleared, then the form is rejected
\* (no user, a required field missing or no interest selected) or the
\* service is called with no prior turns.
handleGeneratePlan(form) ==
    /\ suggestedPlaces' = <<>>
    /\ chatHistory' = <<>>
    /\ IF ValidationMessage(form) # "none"
       THEN /\ formMessage' = ValidationMessage(form)
            /\ formMessageType' = "error"
            /\ loadingPlan' = FALSE
            /\ UNCHANGED <<gen, inFlight, overtaken>>
       ELSE /\ loadingPlan' = TRUE
            /\ formMessage' = "generating"
            /\ formMessageType' = "success"
            /\ gen' = [pc |-> "awaitGemini", places |-> <<>>,
                       request |-> GeminiRequest(GeminiContents(<<>>, <<>>))]
            /\ Started("generate")
    /\ UNCHANGED <<trips, chatLoading, currentTripId, chat, tripPageVars>>

\* A submit of a form that does not pass the checks.
GenerateRejected ==
    /\ ~loadingPlan
    /\ \E form \in Forms : ValidationMessage(form) # "none" /\ handleGeneratePlan(form)
    /\ UNCHANGED pureVars

\* A submit of a form that passes the checks.
GenerateStart ==
    /\ ~loadingPlan
    /\ Len(trips) < MaxTrips
    /\ \E form \in Forms : ValidationMessage(form) = "none" /\ handleGeneratePlan(form)
    /\ UNCHANGED pureVars

\* getGeminiSuggestions settles: it throws (catch, finally) or returns the
\* places, which are shown and sent to the table.
GenerateGeminiSettles ==
    /\ gen.pc = "awaitGemini"
    /\ \E reply \in PlanReplies :
         LET result == getGeminiSuggestions(TRUE, reply)
         IN  IF result.ok
             THEN /\ suggestedPlaces' = result.value
                  /\ formMessage' = "generated"
                  /\ formMessageType' = "success"
                  /\ gen' = [pc |-> "awaitInsert", places |-> result.value,
                             request |-> TripsRequest("insert", 0, User, result.value)]
                  /\ UNCHANGED <<loadingPlan, inFlight, overtaken>>
             ELSE /\ formMessage' = "error"
                  /\ formMessageType' = "error"
                  /\ loadingPlan' = FALSE
                  /\ gen' = GenIdle
                  /\ Ended("generate")
                  /\ UNCHANGED suggestedPlaces
    /\ UNCHANGED <<trips, chatLoading, currentTripId, chatHistory, chat, tripPageVars>>
    /\ UNCHANGED pureVars

\* The insert settles: with an error (thrown, caught) or with the new row.
GenerateInsertSettles ==
    /\ gen.pc = "awaitInsert"
    /\ \E supabaseError \in BOOLEAN :
         IF supabaseError
         THEN /\ formMessage' = "error"
              /\ formMessageType' = "error"
              /\ UNCHANGED <<trips, currentTripId, chatHistory>>
         ELSE /\ trips' = Append(trips, TripRow(Len(trips) + 1, gen.request.body))
              /\ currentTripId' = Len(trips) + 1
              /\ formMessage' = "saved"
              /\ formMessageType' = "success"
              /\ chatHistory' = <<PromptTurn, JsonTurn(gen.places)>>
    /\ loadingPlan' = FALSE
    /\ gen' = GenIdle
    /\ Ended("generate")
    /\ UNCHANGED <<chatLoading, suggestedPlaces, chat, tripPageVars>>
    /\ UNCHANGED pureVars

(***************************************************************************)
(* loadTripForReplan: the page is given replanTripId, the id of a trip.    *)
(* It runs in the place of a generation: the buttons that start one are    *)
(* disabled while loadingPlan is set.                                      *)
(***************************************************************************)
ReplanStart ==
    /\ gen.pc = "idle"
    /\ ~loadingPlan
    /\ \E currentReplanTripId \in 1..Len(trips) :
         gen' = [pc |-> "awaitReplan", places |-> <<>>,
                 request |-> TripsRequest("select", currentReplanTripId, User, <<>>)]
    /\ loadingPlan' = TRUE
    /\ Started("replan")
    /\ UNCHANGED <<trips, chatLoading, formMessageType, formMessage, suggestedPlaces,
                   currentTripId, chatHistory, chat, tripPageVars>>
    /\ UNCHANGED pureVars

\* The select settles: with an error, or with the row, whose places are
\* shown and whose id becomes the current trip.
ReplanSettles ==
    /\ gen.pc = "awaitReplan"
    /\ \E error_ \in BOOLEAN :
         LET rows == {i \in 1..Len(trips) : RowMatches(trips[i], gen.request)}
         IN  IF error_ \/ rows = {}
             THEN /\ formMessage' = "replanFailed"
                  /\ formMessageType' = "error"
                  /\ UNCHANGED <<suggestedPlaces, currentTripId>>
             ELSE LET data == trips[CHOOSE i \in rows : TRUE]
                  IN  /\ suggestedPlaces' = data.suggested_places
                      /\ currentTripId' = data.id
                      /\ formMessage' = "replanLoaded"
                      /\ formMessageType' = "success"
    /\ loadingPlan' = FALSE
    /\ gen' = GenIdle
    /\ Ended("replan")
    /\ UNCHANGED <<trips, chatLoading, chatHistory, chat, tripPageVars>>
    /\ UNCHANGED pureVars

(***************************************************************************)
(* handleChatSubmit                                                        *)
(***************************************************************************)
\* The user turn is appended and the latest trip is asked for.  The bound
\* on the history leaves room for this cycle's two turns.
ChatSubmit ==
    /\ ~chatLoading
    /\ currentTripId # 0
    /\ Len(chatHistory) + 2 <= MaxTurns
    /\ chatLoading' = TRUE
    /\ chatHistory' = Append(chatHistory, UserMessage)
    /\ chat' = [pc |-> "awaitFetch", tripId |-> currentTripId,
                newChatHistory |-> Append(chatHistory, UserMessage),
                latestPlaces |-> <<>>, refined |-> <<>>,
                request |-> TripsRequest("select", currentTripId, NoFilter, <<>>)]
    /\ Started("chat")
    /\ UNCHANGED <<trips, loadingPlan, formMessageType, formMessage, suggestedPlaces, currentTripId, gen,
                   tripPageVars>>
    /\ UNCHANGED pureVars

\* catch: an error turn is appended; finally: the chat is no longer loading
ChatFailed ==
    /\ chatHistory' = Append(chatHistory, ErrorTurn)
    /\ chatLoading' = FALSE
    /\ chat' = ChatIdle
    /\ Ended("chat")

\* The select settles: with the row, and the service is called with the
\* whole history, or with an error or no row (thrown, caught).
ChatFetchSettles ==
    /\ chat.pc = "awaitFetch"
    /\ \E fetchError \in BOOLEAN :
         LET rows == {i \in 1..Len(trips) : RowMatches(trips[i], chat.request)}
         IN  IF fetchError \/ rows = {}
             THEN ChatFailed
             ELSE LET latestTrip == trips[CHOOSE i \in rows : TRUE]
                  IN  /\ chat' = [chat EXCEPT
                                    !.pc = "awaitGemini",
                                    !.latestPlaces = latestTrip.suggested_places,
                                    !.request = GeminiRequest(
                                        GeminiContents(chat.newChatHistory,
                                                       latestTrip.suggested_places))]
                      /\ UNCHANGED <<chatHistory, chatLoading, inFlight, overtaken>>
    /\ UNCHANGED <<trips, loadingPlan, formMessageType, formMessage, suggestedPlaces, currentTripId, gen,
                   tripPageVars>>
    /\ UNCHANGED pureVars

\* getGeminiSuggestions settles: it throws (caught: an error turn), or the
\* refined places are sent to the table.
ChatGeminiSettles ==
    /\ chat.pc = "awaitGemini"
    /\ \E reply \in PlanReplies :
         LET result == getGeminiSuggestions(TRUE, reply)
         IN  IF result.ok
             THEN /\ chat' = [chat EXCEPT
                                !.pc = "awaitUpdate",
                                !.refined = result.value,
                                !.request = TripsRequest("update", chat.tripId, NoFilter,
                                                         result.value)]
                  /\ UNCHANGED <<chatHistory, chatLoading, inFlight, overtaken>>
             ELSE ChatFailed
    /\ UNCHANGED <<trips, loadingPlan, formMessageType, formMessage, suggestedPlaces, currentTripId, gen,
                   tripPageVars>>
    /\ UNCHANGED pureVars

\* The update settles: with an error (a turn says so), or the row is
\* written, the new places are shown and the acknowledgement is appended.
ChatUpdateSettles ==
    /\ chat.pc = "awaitUpdate"
    /\ \E updateError \in BOOLEAN :
         IF updateError
         THEN /\ chatHistory' = Append(chatHistory, SaveFailedTurn)
              /\ UNCHANGED <<trips, suggestedPlaces>>
         ELSE /\ trips' = UpdateRows(trips, chat.request)
              /\ suggestedPlaces' = chat.refined
              /\ chatHistory' = Append(chatHistory, RefinedTurn)
    /\ chat' = ChatIdle
    /\ chatLoading' = FALSE
    /\ Ended("chat")
    /\ UNCHANGED <<loadingPlan, formMessageType, formMessage, currentTripId, gen, tripPageVars>>
    /\ UNCHANGED pureVars

(***************************************************************************)
(* Trip page: fetchTripDetails, handleSaveNote, handleVisitedToggle,       *)
(* updatePlaceInSupabase                                                   *)
(***************************************************************************)
NoTrip == [id |-> 0, suggested_places |-> <<>>]
AnnotIdle == [pc |-> "idle", newSuggestedPlaces |-> <<>>, request |-> NoRequest]

HasField(place, f) == f \in DOMAIN place

\* { ...place, notes: place.notes || "", visited: place.visited ?? false }
InitializedPlace(place) ==
    [f \in DOMAIN place \cup {"notes", "visited"} |->
        IF f = "notes" THEN (IF HasField(place, "notes") THEN place.notes ELSE "")
        ELSE IF f = "visited" THEN (IF HasField(place, "visited") THEN place.visited ELSE FALSE)
        ELSE place[f]]

InitializedPlaces(places) == [i \in 1..Len(places) |-> InitializedPlace(places[i])]

\* The page is opened on a trip of the user: the row is read and its places
\* are initialized.
FetchTripDetails ==
    /\ annot.pc = "idle"
    /\ \E id \in 1..Len(trips) :
         /\ RowMatches(trips[id], TripsRequest("select", id, User, <<>>))
         /\ trip' = [id |-> id, suggested_places |-> InitializedPlaces(trips[id].suggested_places)]
    /\ error' = "none"
    /\ savingNotes' = FALSE
    /\ UNCHANGED <<trips, planVars, annot>>
    /\ UNCHANGED pureVars

\* trip.suggested_places.findIndex((p) => p.name === place.name &&
\*                                        p.description === place.description), from 1
OriginalIndex(places, place) ==
    LET hits == {i \in 1..Len(places) :
                    places[i].name = place.name /\ places[i].description = place.description}
    IN  CHOOSE i \in hits : \A j \in hits : i <= j

\* { ...trip.suggested_places[index], notes: currentNote }
WithNoteResetsVisited(place, currentNote) ==
    [f \in DOMAIN place \cup {"notes"} |->
        IF f = "notes" THEN currentNote ELSE IF f = "visited" THEN FALSE ELSE place[f]]
WithNote(place, currentNote) ==
    [f \in DOMAIN place \cup {"notes"} |-> IF f = "notes" THEN currentNote ELSE place[f]]
\* { ...trip.suggested_places[index], visited: !trip.suggested_places[index].visited }
WithVisitedToggled(place) ==
    [f \in DOMAIN place \cup {"visited"} |->
        IF f = "visited" THEN (IF HasField(place, "visited") THEN ~place.visited ELSE TRUE)
        ELSE place[f]]

NoteTexts == {"", "n"}

\* places[index] of JavaScript, with index counted from 1: undefined outside
\* the array, and { ...undefined } is {}.
Undefined == [f \in {} |-> ""]
At(places, index) == IF index \in 1..Len(places) THEN places[index] ELSE Undefined

\* newSuggestedPlaces[index] = updatedPlace, as the list that is serialized
\* and shown: an index before the first element adds a property that is no
\* element, an index past the last extends the array (the elements skipped
\* are holes).
ArrayAssign(places, index, value) ==
    IF index < 1 THEN places
    ELSE [i \in 1..(IF index > Len(places) THEN index ELSE Len(places)) |->
            IF i = index THEN value ELSE At(places, i)]

\* updatePlaceInSupabase(updatedPlace, index) up to its await
UpdatePlaceStart(updatedPlace, index) ==
    LET newSuggestedPlaces == ArrayAssign(trip.suggested_places, index, updatedPlace)
    IN  /\ savingNotes' = TRUE
        /\ annot' = [pc |-> "awaitUpdate", newSuggestedPlaces |-> newSuggestedPlaces,
                     request |-> TripsRequest("update", trip.id, User, newSuggestedPlaces)]
        /\ UNCHANGED <<trips, planVars, trip, error>>

\* handleSaveNote(index) with the note being edited, up to the await inside
\* updatePlaceInSupabase
handleSaveNote(index, currentNote) ==
    /\ trip.id # 0
    /\ UpdatePlaceStart(WithNote(At(trip.suggested_places, index), currentNote), index)

\* handleVisitedToggle(index), up to the await inside updatePlaceInSupabase;
\* outside the array the read of .visited throws and nothing else happens.
handleVisitedToggle(index) ==
    /\ trip.id # 0
    /\ IF index \in 1..Len(trip.suggested_places)
       THEN UpdatePlaceStart(WithVisitedToggled(trip.suggested_places[index]), index)
       ELSE UNCHANGED <<trips, planVars, tripPageVars>>

\* Save of the note edited on the place shown at position shown of the list:
\* the handler gets the place's originalIndex.
SaveNoteShown(shown, currentNote) ==
    handleSaveNote(OriginalIndex(trip.suggested_places, trip.suggested_places[shown]),
                   currentNote)

HandleSaveNote ==
    /\ ~savingNotes
    /\ \E shown \in 1..Len(trip.suggested_places), currentNote \in NoteTexts :
         SaveNoteShown(shown, currentNote)
    /\ UNCHANGED pureVars

\* The visited box of the place shown at position shown is clicked.
VisitedToggleShown(shown) ==
    handleVisitedToggle(OriginalIndex(trip.suggested_places, trip.suggested_places[shown]))

HandleVisitedToggle ==
    /\ ~savingNotes
    /\ \E shown \in 1..Len(trip.suggested_places) : VisitedToggleShown(shown)
    /\ UNCHANGED pureVars

\* The handlers called with any index next to the list, as a caller other
\* than the rendered list could.  The list grows by one place at most.
IndexInputs == 0..(Len(trip.suggested_places) + 1)

SaveNoteAt ==
    /\ ~savingNotes
    /\ Len(trip.suggested_places) <= MaxPlaces
    /\ \E index \in IndexInputs, currentNote \in NoteTexts : handleSaveNote(index, currentNote)
    /\ UNCHANGED pureVars

VisitedToggleAt ==
    /\ ~savingNotes
    /\ \E index \in IndexInputs : handleVisitedToggle(index)
    /\ UNCHANGED pureVars

\* The update settles: an error result, an exception, or the row is written
\* and the trip in memory takes the new list.
UpdatePlaceSettlesShowsUnsaved ==
    /\ annot.pc = "awaitUpdate"
    /\ \E outcome \in {"ok", "updateError", "thrown"} :
         /\ trip' = [trip EXCEPT !.suggested_places = annot.newSuggestedPlaces]
         /\ IF outcome = "ok"
            THEN /\ trips' = UpdateRows(trips, annot.request)
                 /\ error' = "none"
            ELSE /\ error' = (IF outcome = "updateError" THEN "saveFailed" ELSE "unexpected")
                 /\ UNCHANGED trips
    /\ savingNotes' = FALSE
    /\ annot' = AnnotIdle
    /\ UNCHANGED planVars
    /\ UNCHANGED pureVars
UpdatePlaceSettles ==
    /\ annot.pc = "awaitUpdate"
    /\ \E outcome \in {"ok", "updateError", "thrown"} :
         IF outcome = "ok"
         THEN /\ trips' = UpdateRows(trips, annot.request)
              /\ trip' = [trip EXCEPT !.suggested_places = annot.newSuggestedPlaces]
              /\ error' = "none"
         ELSE /\ error' = (IF outcome = "updateError" THEN "saveFailed" ELSE "unexpected")
              /\ UNCHANGED <<trips, trip>>
    /\ savingNotes' = FALSE
    /\ annot' = AnnotIdle
    /\ UNCHANGED planVars
    /\ UNCHANGED pureVars

(***************************************************************************)
(* The application: one planning page and one trip page of the same user   *)
(* over the trips table.                                                   *)
(***************************************************************************)
PagesInit ==
    /\ loadingPlan = FALSE
    /\ chatLoading = FALSE
    /\ formMessageType = "none"
    /\ formMessage = "none"
    /\ suggestedPlaces = <<>>
    /\ currentTripId = 0
    /\ chatHistory = <<>>
    /\ gen = GenIdle
    /\ chat = ChatIdle
    /\ inFlight = <<>>
    /\ overtaken = {}
    /\ trip = NoTrip
    /\ savingNotes = FALSE
    /\ error = "none"
    /\ annot = AnnotIdle

AppInit == trips = <<>> /\ PagesInit

PlanNext ==
    \/ GenerateRejected
    \/ GenerateStart
    \/ GenerateGeminiSettles
    \/ GenerateInsertSettles
    \/ ChatSubmit
    \/ ChatFetchSettles
    \/ ChatGeminiSettles
    \/ ChatUpdateSettles

TripPageNext ==
    \/ FetchTripDetails
    \/ HandleSaveNote
    \/ HandleVisitedToggle
    \/ UpdatePlaceSettles

AppNext == PlanNext \/ TripPageNext

(***************************************************************************)
(* Map page (ViewMapPage): geocodeAddress, getOrsProfile, getDirections    *)
(* and the effect addMarkersAndRoute.  The effect runs again whenever the  *)
(* trip is loaded again, also while earlier runs are still awaiting; runs  *)
(* holds the runs in progress and the last ones that ended.                *)
(*                                                                         *)
(* A position is <<latitude, longitude>>; null is NoCoord.  mapError is    *)
(* the sequence of the messages joined by <br>, <<>> for null.             *)
(***************************************************************************)
NoCoord == <<>>

\* What is geocoded: the starting point, the destination, or
\* `${place.name}, ${trip.destination}`.
AddressOf(text) == <<text>>
FullAddress(place, destination) == <<place.name, destination>>

\* The coordinates Nominatim knows for an address, as [lat, lon] strings
\* parsed by Number.parseFloat.
LatOf(address) ==
    IF address = <<"S">> THEN 10
    ELSE IF address = <<"D">> THEN 20
    ELSE IF address[1] = "A" THEN 30
    ELSE 40
LonOf(address) == LatOf(address) + 5

GeocodeReplies == {"found", "empty", "httpError", "thrown"}

Message(kind, address) == [kind |-> kind, address |-> address]
\* prev ? `${prev}<br>${text}` : text
Joined(prev, message) == Append(prev, message)

\* geocodeAddress(address): the coordinate or null, and mapError afterwards
geocodeAddress(address, reply, prevError) ==
    IF reply \in {"httpError", "thrown"}
    THEN [coord |-> NoCoord, mapError |-> Joined(prevError, Message("notFound", address))]
    ELSE IF reply = "found"
         THEN [coord |-> <<LatOf(address), LonOf(address)>>, mapError |-> prevError]
         ELSE [coord |-> NoCoord, mapError |-> prevError]     \* console.warn only

getOrsProfile(mode) ==
    IF mode = "car" THEN "driving-car"
    ELSE IF mode = "walk" THEN "walking"
    ELSE IF mode = "public_transport" THEN "driving-car"
    ELSE "driving-car"

\* coordinates.map((coord) => [coord[1], coord[0]])
SwapAxesKept(coordinates) == coordinates
SwapAxes(coordinates) ==
    [i \in 1..Len(coordinates) |-> <<coordinates[i][2], coordinates[i][1]>>]

\* The body sent to OpenRouteService
OrsRequest(profile, orsCoordinates) == [profile |-> profile, coordinates |-> orsCoordinates]
NoOrsRequest == OrsRequest("none", <<>>)

\* The replies of OpenRouteService: an error status or an exception, a body
\* without usable geometry, or a route through the coordinates sent.
OrsReplies == {"httpError", "thrown", "noRoutes", "emptyGeometry", "route"}

Marker(position, label, text) == [position |-> position, label |-> label, text |-> text]

MapTrip(starting_point, places, mode) ==
    [id |-> 1, starting_point |-> starting_point, destination |-> "D",
     suggested_places |-> places, preferred_travel_mode |-> mode]

RunIdle ==
    [pc |-> "idle", index |-> 0, newMarkers |-> <<>>, placeCoordinates |-> <<>>,
     skipped |-> <<>>, request |-> NoOrsRequest, orsReply |-> "none", outcome |-> "none"]

Runs == 1..MaxRuns

\* placeCoordinates.push(coord); newMarkers.push({ position: coord, popupContent })
Pushed(run, coord, label, text) ==
    [run EXCEPT !.placeCoordinates = Append(@, coord),
                !.newMarkers = Append(@, Marker(coord, label, text))]
\* The address gave no coordinate: nothing is pushed.
Skipped(run, address) == [run EXCEPT !.skipped = Append(@, address)]

Geocoded(run, g, address, label, text) ==
    IF g.coord # NoCoord THEN Pushed(run, g.coord, label, text) ELSE Skipped(run, address)

InProgress(run) == run.pc \notin {"idle", "done"}

\* The function returns.
DoneKeepsAwaiting(run, outcome) == [run EXCEPT !.outcome = outcome]
Done(run, outcome) == [run EXCEPT !.pc = "done", !.outcome = outcome]

\* The effect fires: the trip is loaded (again).  The run takes the first
\* free place among the runs in progress.
MapRunStart(r) ==
    /\ ~InProgress(runs[r])
    /\ \A q \in 1..(r - 1) : InProgress(runs[q])
    /\ loadingMapData' = TRUE
    /\ mapError' = <<>>
    /\ runs' = [runs EXCEPT ![r] =
                  [RunIdle EXCEPT !.pc = IF mapTrip.starting_point # "" THEN "geoStart"
                                         ELSE "geoDest"]]
    /\ UNCHANGED <<mapTrip, orsApiKey, markers, routeCoordinates, mapCenter>>
    /\ UNCHANGED <<bucketVars, engineVars, appVars, tabs>>

\* The rest of addMarkersAndRoute once every place has been geocoded, up to
\* the fetch of getDirections; run and err are the run and mapError so far.
AfterGeocoding(r, run, err) ==
    /\ markers' = run.newMarkers
    /\ IF Len(run.placeCoordinates) > 0
       THEN /\ mapCenter' = run.placeCoordinates[1]
            /\ IF Len(run.placeCoordinates) >= 2
               THEN IF ~orsApiKey
                    THEN /\ mapError' = <<Message("orsKey", <<>>)>>
                         /\ routeCoordinates' = <<>>
                         /\ loadingMapData' = FALSE
                         /\ runs' = [runs EXCEPT ![r] = Done(run, "ready")]
                    ELSE /\ mapError' = err
                         /\ runs' = [runs EXCEPT ![r] =
                                       [run EXCEPT
                                          !.pc = "routing",
                                          !.request =
                                              OrsRequest(getOrsProfile(mapTrip.preferred_travel_mode),
                                                         SwapAxes(run.placeCoordinates))]]
                         /\ UNCHANGED <<routeCoordinates, loadingMapData>>
               ELSE /\ mapError' = err
                    /\ routeCoordinates' = <<>>
                    /\ loadingMapData' = FALSE
                    /\ runs' = [runs EXCEPT ![r] = Done(run, "ready")]
       ELSE /\ mapError' = Joined(err, Message("noLocations", <<>>))
            /\ loadingMapData' = FALSE
            /\ runs' = [runs EXCEPT ![r] = Done(run, "noLocations")]
            /\ UNCHANGED <<mapCenter, routeCoordinates>>

\* The geocoding of the starting point settles.
GeocodeStartSettles(r) ==
    /\ runs[r].pc = "geoStart"
    /\ \E reply \in GeocodeReplies :
         LET address == AddressOf(mapTrip.starting_point)
             g == geocodeAddress(address, reply, mapError)
         IN  /\ mapError' = g.mapError
             /\ runs' = [runs EXCEPT ![r] =
                           [Geocoded(runs[r], g, address, "Starting Point", mapTrip.starting_point)
                              EXCEPT !.pc = "geoDest"]]
    /\ UNCHANGED <<mapTrip, orsApiKey, markers, routeCoordinates, mapCenter, loadingMapData>>
    /\ UNCHANGED <<bucketVars, engineVars, appVars, tabs>>

\* The geocoding of the destination settles: without a coordinate the run
\* ends here.
GeocodeDestSettles(r) ==
    /\ runs[r].pc = "geoDest"
    /\ \E reply \in GeocodeReplies :
         LET address == AddressOf(mapTrip.destination)
             g == geocodeAddress(address, reply, mapError)
             run == Geocoded(runs[r], g, address, "Destination", mapTrip.destination)
         IN  IF g.coord # NoCoord
             THEN IF Len(mapTrip.suggested_places) = 0
                  THEN AfterGeocoding(r, run, g.mapError)
                  ELSE /\ runs' = [runs EXCEPT ![r] = [run EXCEPT !.pc = "geoPlace", !.index = 1]]
                       /\ mapError' = g.mapError
                       /\ UNCHANGED <<markers, routeCoordinates, mapCenter, loadingMapData>>
             ELSE /\ mapError' = <<Message("destination", <<>>)>>
                  /\ loadingMapData' = FALSE
                  /\ runs' = [runs EXCEPT ![r] = Done(run, "destinationUnresolved")]
                  /\ UNCHANGED <<markers, routeCoordinates, mapCenter>>
    /\ UNCHANGED <<mapTrip, orsApiKey>>
    /\ UNCHANGED <<bucketVars, engineVars, appVars, tabs>>

\* The geocoding of the next suggested place settles.
GeocodePlaceSettles(r) ==
    /\ runs[r].pc = "geoPlace"
    /\ \E reply \in GeocodeReplies :
         LET place == mapTrip.suggested_places[runs[r].index]
             address == FullAddress(place, mapTrip.destination)
             g == geocodeAddress(address, reply, mapError)
             run == Geocoded(runs[r], g, address, place.name, place.description)
         IN  IF runs[r].index = Len(mapTrip.suggested_places)
             THEN AfterGeocoding(r, run, g.mapError)
             ELSE /\ runs' = [runs EXCEPT ![r] = [run EXCEPT !.index = @ + 1]]
                  /\ mapError' = g.mapError
                  /\ UNCHANGED <<markers, routeCoordinates, mapCenter, loadingMapData>>
    /\ UNCHANGED <<mapTrip, orsApiKey>>
    /\ UNCHANGED <<bucketVars, engineVars, appVars, tabs>>

\* The geometry of the first route of the reply, as [lon, lat] pairs
OrsGeometry(request, reply) == IF reply = "route" THEN request.coordinates ELSE <<>>

\* getDirections from its fetch on: the route as positions, or null
getDirectionsStraightLine(request, reply) ==
    IF reply = "route" THEN SwapAxes(OrsGeometry(request, reply))
    ELSE SwapAxes(request.coordinates)
getDirections(request, reply) ==
    IF reply \in {"httpError", "thrown"} THEN NoCoord
    ELSE IF reply = "noRoutes" THEN NoCoord
    ELSE IF Len(OrsGeometry(request, reply)) > 0 THEN SwapAxes(OrsGeometry(request, reply))
    ELSE NoCoord

\* The fetch of getDirections settles: setRouteCoordinates(route || [])
RoutingSettles(r) ==
    /\ runs[r].pc = "routing"
    /\ \E reply \in OrsReplies :
         LET route == getDirections(runs[r].request, reply)
         IN  /\ routeCoordinates' = IF route = NoCoord THEN <<>> ELSE route
             /\ runs' = [runs EXCEPT ![r] = Done([runs[r] EXCEPT !.orsReply = reply], "ready")]
    /\ loadingMapData' = FALSE
    /\ UNCHANGED <<mapTrip, orsApiKey, markers, mapCenter, mapError>>
    /\ UNCHANGED <<bucketVars, engineVars, appVars, tabs>>

TravelModes == {"walk", "public_transport"}

MapInit ==
    /\ mapTrip \in {MapTrip(s, ps, m) : s \in {"", "S"}, ps \in GeneratedLists, m \in TravelModes}
    /\ orsApiKey \in BOOLEAN
    /\ markers = <<>>
    /\ routeCoordinates = <<>>
    /\ mapError = <<>>
    /\ loadingMapData = FALSE
    /\ mapCenter = <<20, 78>>
    /\ runs = [r \in Runs |-> RunIdle]

MapIdle ==
    /\ mapTrip = MapTrip("", <<>>, "car")
    /\ orsApiKey = TRUE
    /\ markers = <<>>
    /\ routeCoordinates = <<>>
    /\ mapError = <<>>
    /\ loadingMapData = FALSE
    /\ mapCenter = <<20, 78>>
    /\ runs = [r \in Runs |-> RunIdle]

(***************************************************************************)
(* The trip page of one trip open in several tabs of the same user: every  *)
(* tab has its own trip in memory, savingNotes, error and running          *)
(* updatePlaceInSupabase, and all write the same row.                      *)
(***************************************************************************)
Tabs == 1..MaxTabs

TabAnnotIdle == [pc |-> "idle", index |-> 0, newSuggestedPlaces |-> <<>>, request |-> NoRequest]
TabClosed == [trip |-> NoTrip, savingNotes |-> FALSE, error |-> "none", annot |-> TabAnnotIdle]

\* fetchTripDetails in tab t
TabFetchTripDetails(t) ==
    /\ tabs[t].annot.pc = "idle"
    /\ \E id \in 1..Len(trips) :
         /\ RowMatches(trips[id], TripsRequest("select", id, User, <<>>))
         /\ tabs' = [tabs EXCEPT ![t] =
                       [TabClosed EXCEPT
                          !.trip = [id |-> id,
                                    suggested_places |->
                                        InitializedPlaces(trips[id].suggested_places)]]]
    /\ UNCHANGED <<bucketVars, engineVars, appVars, mapVars>>

\* updatePlaceInSupabase(updatedPlace, index) in tab t up to its await
TabUpdatePlaceStart(t, updatedPlace, index) ==
    LET newSuggestedPlaces == [tabs[t].trip.suggested_places EXCEPT ![index] = updatedPlace]
    IN  tabs' = [tabs EXCEPT
                   ![t].savingNotes = TRUE,
                   ![t].annot = [pc |-> "awaitUpdate", index |-> index,
                                 newSuggestedPlaces |-> newSuggestedPlaces,
                                 request |-> TripsRequest("update", tabs[t].trip.id, User,
                                                          newSuggestedPlaces)]]

\* handleSaveNote in tab t
TabSaveNote(t) ==
    /\ tabs[t].trip.id # 0
    /\ ~tabs[t].savingNotes
    /\ \E shown \in 1..Len(tabs[t].trip.suggested_places), currentNote \in NoteTexts :
         LET places == tabs[t].trip.suggested_places
             index == OriginalIndex(places, places[shown])
         IN  TabUpdatePlaceStart(t, WithNote(places[index], currentNote), index)
    /\ UNCHANGED <<bucketVars, engineVars, appVars, mapVars>>

\* handleVisitedToggle in tab t
TabVisitedToggle(t) ==
    /\ tabs[t].trip.id # 0
    /\ ~tabs[t].savingNotes
    /\ \E shown \in 1..Len(tabs[t].trip.suggested_places) :
         LET places == tabs[t].trip.suggested_places
             index == OriginalIndex(places, places[shown])
         IN  TabUpdatePlaceStart(t, WithVisitedToggled(places[index]), index)
    /\ UNCHANGED <<bucketVars, engineVars, appVars, mapVars>>

\* The update of tab t settles.
TabUpdateSettles(t) ==
    /\ tabs[t].annot.pc = "awaitUpdate"
    /\ \E outcome \in {"ok", "updateError", "thrown"} :
         IF outcome = "ok"
         THEN /\ trips' = UpdateRows(trips, tabs[t].annot.request)
              /\ tabs' = [tabs EXCEPT
                            ![t].trip.suggested_places = tabs[t].annot.newSuggestedPlaces,
                            ![t].error = "none",
                            ![t].savingNotes = FALSE,
                            ![t].annot = TabAnnotIdle]
         ELSE /\ tabs' = [tabs EXCEPT
                            ![t].error = IF outcome = "updateError" THEN "saveFailed"
                                         ELSE "unexpected",
                            ![t].savingNotes = FALSE,
                            ![t].annot = TabAnnotIdle]
              /\ UNCHANGED trips
    /\ UNCHANGED <<bucketVars, engineVars, planVars, tripPageVars, mapVars>>

\* No tab is open.
TabsIdle == tabs = <<>>

\* A trip of the user is stored and the tabs are about to open it.
TabsInit ==
    /\ trips \in {<<TripRow(1, ps)>> : ps \in GeneratedLists \ {<<>>}}
    /\ PagesInit
    /\ tabs = [t \in Tabs |-> TabClosed]

TabsNext ==
    \E t \in Tabs :
        \/ TabFetchTripDetails(t)
        \/ TabSaveNote(t)
        \/ TabVisitedToggle(t)
        \/ TabUpdateSettles(t)

MapNext ==
    \E r \in Runs :
        \/ MapRunStart(r)
        \/ GeocodeStartSettles(r)
        \/ GeocodeDestSettles(r)
        \/ GeocodePlaceSettles(r)
        \/ RoutingSettles(r)

(***************************************************************************)
(* Specifications of the two pure functions: the inputs are drawn from the *)
(* bounded sets above and the function is applied to them.                 *)
(***************************************************************************)
BucketIdle ==
    /\ bPlaces = <<>>
    /\ bDuration = 1
    /\ dailyItinerary = <<>>
    /\ bPc = "input"

EngineIdle ==
    /\ eApiKey = TRUE
    /\ eReply = HttpReply(200, FALSE, NoText)
    /\ eResult = Throw("pending")
    /\ ePc = "called"

vars == <<bucketVars, engineVars, appVars, mapVars, tabs>>

\* getPlacesByDay alone, over every bounded list and duration.
InitBucket == BucketInit /\ EngineIdle /\ AppInit /\ MapIdle /\ TabsIdle

SpecBucket == InitBucket /\ [][BucketNext]_vars

\* getGeminiSuggestions alone, over every bounded reply.
InitEngine == EngineInit /\ BucketIdle /\ AppInit /\ MapIdle /\ TabsIdle

SpecEngine == InitEngine /\ [][EngineNext]_vars

Init == BucketIdle /\ EngineIdle /\ AppInit /\ MapIdle /\ TabsIdle

Next == AppNext

Spec == Init /\ [][Next]_vars

\* The map page alone, over every bounded trip.
InitMap == BucketIdle /\ EngineIdle /\ AppInit /\ MapInit /\ TabsIdle

SpecMap == InitMap /\ [][MapNext]_vars

\* The map page when the trip is loaded again only after the run before has
\* ended.  Every fetch of the run settles: the geocoding and the routing
\* service answer or the fetch fails; a run awaits one fetch at a time.
RunSettles(r) ==
    \/ GeocodeStartSettles(r)
    \/ GeocodeDestSettles(r)
    \/ GeocodePlaceSettles(r)
    \/ RoutingSettles(r)

MapNextInTurn == MapRunStart(1) \/ RunSettles(1)

FairSpecMap == InitMap /\ [][MapNextInTurn]_vars /\ WF_vars(RunSettles(1))

\* The trip page in several tabs over one stored trip.
InitTabs == BucketIdle /\ EngineIdle /\ MapIdle /\ TabsInit

SpecTabs == InitTabs /\ [][TabsNext]_vars

\* The planning page alone.
SpecPlan == Init /\ [][PlanNext]_vars

\* One trip, planned once, then refined on the planning page while the trip
\* page annotates it.
FirstGenerateStart == trips = <<>> /\ GenerateStart

SharedNext ==
    \/ FirstGenerateStart
    \/ GenerateGeminiSettles
    \/ GenerateInsertSettles
    \/ ChatSubmit
    \/ ChatFetchSettles
    \/ ChatGeminiSettles
    \/ ChatUpdateSettles
    \/ TripPageNext

SpecShared == Init /\ [][SharedNext]_vars

\* The planning page with trips loaded again for re-planning.
ReplanNext == PlanNext \/ ReplanStart \/ ReplanSettles

SpecReplan == Init /\ [][ReplanNext]_vars

\* The trip page alone over one stored trip, whose list may name a place
\* more than once (the service's answers are stored as they come).
StoredLists == SeqsUpTo(GeneratedPlaces, MaxPlaces) \ {<<>>}

TripPageInit ==
    /\ trips \in {<<TripRow(1, ps)>> : ps \in StoredLists}
    /\ PagesInit

InitTripPage == BucketIdle /\ EngineIdle /\ MapIdle /\ TabsIdle /\ TripPageInit

SpecTripPage == InitTripPage /\ [][TripPageNext]_vars

\* The storage client settles every update it was given.
FairSpecTripPage == SpecTripPage /\ WF_vars(UpdatePlaceSettles)

\* The trip page's handlers under calls with any index.
AnnotateNext ==
    \/ FetchTripDetails
    \/ SaveNoteAt
    \/ VisitedToggleAt
    \/ UpdatePlaceSettles

SpecAnnotate == InitTripPage /\ [][AnnotateNext]_vars

(***************************************************************************)
(* Claims about the refinement cycle and the trips table                   *)
(***************************************************************************)
Last(seq) == seq[Len(seq)]

\* Steps of the running handlers, told by the handler's position.
ChatStep == chat.pc # chat'.pc
GenerateStep == gen.pc # gen'.pc
\* The refinement's update settled without an error.
ChatPersisted ==
    /\ chat.pc = "awaitUpdate"
    /\ chat'.pc = "idle"
    /\ chatHistory' = Append(chatHistory, RefinedTurn)
\* The call of the service by the refinement cycle threw.
ChatEngineFailed == chat.pc = "awaitGemini" /\ chat'.pc = "idle"
\* The annotation's update settled.
AnnotationSettled == annot.pc = "awaitUpdate" /\ annot'.pc = "idle"

SameKey(p, q) == p.name = q.name /\ p.description = q.description

\* C1: after a refinement, every place of the newly stored list whose
\* (name, description) is that of a place stored before carries that place's
\* notes and visited flag (those of the first such place), whatever its new
\* position.
C1_RefinementKeepsAnnotations ==
    [][ChatPersisted =>
          LET old == InitializedPlaces(trips[chat.tripId].suggested_places)
              new == InitializedPlaces(trips'[chat.tripId].suggested_places)
          IN  \A i \in 1..Len(new) :
                  (\E j \in 1..Len(old) : SameKey(old[j], new[i])) =>
                      LET first == old[OriginalIndex(old, new[i])]
                      IN  new[i].notes = first.notes /\ new[i].visited = first.visited]_vars

\* C2: in a refinement cycle a model turn is appended only by the step in
\* which the update of the trip succeeds, and the trip is written only after
\* the service has returned its places.
C2_TurnOnlyAfterPersist ==
    [][ChatStep =>
          /\ (/\ Len(chatHistory') = Len(chatHistory) + 1
              /\ Last(chatHistory').role = "model")
                => /\ chat.pc = "awaitUpdate"
                   /\ trips'[chat.tripId].suggested_places = chat.refined
                   /\ Last(chatHistory') = RefinedTurn
          /\ trips' # trips => chat.pc = "awaitUpdate"]_vars

\* C3: when the call of the service fails in a refinement cycle, the stored
\* places are unchanged and no turn is appended to the history.
C3_FailedCallAppendsNothing ==
    [][ChatEngineFailed => trips' = trips /\ chatHistory' = chatHistory]_vars

\* C4: a request that a later-started request has outrun applies nothing to
\* the displayed places, the history or the current trip identifier.
C4_StaleNeverApplied ==
    [][(\/ ChatStep /\ "chat" \in overtaken
        \/ GenerateStep /\ "generate" \in overtaken)
          => UNCHANGED <<suggestedPlaces, chatHistory, currentTripId>>]_vars

\* C5: a write of the place list that lands was computed from the list that
\* is stored when it lands, so it drops no write that completed before it.
C5_NoWriteFromOverwrittenList ==
    [][/\ (AnnotationSettled /\ trips' # trips)
            => InitializedPlaces(trips[trip.id].suggested_places) = trip.suggested_places
       /\ (ChatPersisted /\ trips' # trips)
            => trips[chat.tripId].suggested_places = chat.latestPlaces]_vars

\* C6: every select, update and delete sent to the trips table is filtered
\* by the trip identifier and by the user's identity.
C6_EveryQueryOwnerScoped ==
    \A r \in {gen.request, chat.request, annot.request} :
        (r.to = "trips" /\ r.op \in {"select", "update", "delete"})
            => r.id # 0 /\ r.user_id = User

\* C8: no generation and refinement are in progress at the same time.
C8_NoOverlappingRequests == ~(gen.pc # "idle" /\ chat.pc # "idle")

(***************************************************************************)
(* Claims about getGeminiSuggestions                                       *)
(***************************************************************************)
\* The shape a reply element must have, stated on the element itself.
WellTyped(item) == item.type = "object" /\ PropNames \subseteq DOMAIN item.str

Settled == ePc = "settled"

\* C7 (as stated): every element of a returned list has a non-empty string
\* name, a non-empty string description and a string time_to_visit; any
\* other reply makes the call fail.
C7_NonEmptyNamesOrError ==
    Settled =>
        /\ eResult.ok =>
              \A i \in 1..Len(eResult.value) :
                  /\ PropNames \subseteq DOMAIN eResult.value[i]
                  /\ eResult.value[i].name # ""
                  /\ eResult.value[i].description # ""
        /\ (eApiKey /\ \E i \in 1..Len(eReply.text.items) : ~WellTyped(eReply.text.items[i])) =>
              /\ ~eResult.ok
              /\ eResult.error = "parseFailed"

\* C7 (amended): every element of a returned list has a string name, a
\* string description and a string time_to_visit, each possibly empty; the
\* list returned is the whole parsed array; and a reply with any element
\* that is not of this shape is rejected as a whole with the parse error.
C7_TypedOrError ==
    Settled =>
        /\ eResult.ok =>
              /\ Len(eResult.value) = Len(eReply.text.items)
              /\ \A i \in 1..Len(eResult.value) :
                    /\ PropNames \subseteq DOMAIN eResult.value[i]
                    /\ eResult.value[i] = eReply.text.items[i].str
        /\ (eApiKey /\ \E i \in 1..Len(eReply.text.items) : ~WellTyped(eReply.text.items[i])) =>
              /\ ~eResult.ok
              /\ eResult.error = "parseFailed"

\* A list of two places, the first with an empty name, was returned.
C7_Witness ==
    /\ Settled
    /\ eResult.ok
    /\ Len(eResult.value) = 2
    /\ eResult.value[1].name = ""
    /\ eResult.value[2].name = "A"

\* The failures of a reply: a status other than 2xx, no content, text that
\* does not parse, or parsed JSON that is not an array of places.
FailureReply(reply) ==
    \/ reply.status # 200
    \/ ~reply.hasContent
    \/ ~reply.text.syntaxOk
    \/ ~reply.text.isArray
    \/ \E i \in 1..Len(reply.text.items) : ~WellTyped(reply.text.items[i])

Returned == bPc = "returned"

\* C9: for a positive number of days the result has exactly that many
\* buckets, and the buckets concatenated in order are the place list itself;
\* an empty place list gives that many empty buckets.
C9_BucketsConcatToPlaces ==
    (Returned /\ bDuration > 0) =>
        /\ Len(dailyItinerary) = bDuration
        /\ Concat(dailyItinerary) = bPlaces
        /\ bPlaces = <<>> => \A k \in 1..bDuration : dailyItinerary[k] = <<>>

\* Five places over four days: the last day is empty and nothing is lost.
C9_Witness ==
    /\ Returned
    /\ Len(bPlaces) = 5
    /\ bDuration = 4
    /\ dailyItinerary[3] # <<>>
    /\ dailyItinerary[4] = <<>>

\* The least c with c * days >= n: ceil(n / days).
CeilOf(n, days) == CHOOSE c \in 0..n : c * days >= n /\ (c = 0 \/ (c - 1) * days < n)

BucketSizes == [k \in 1..Len(dailyItinerary) |-> Len(dailyItinerary[k])]

\* C10: with perDay = ceil(len / days), bucket k (from 0) is the slice of the
\* places from k * perDay up to min((k + 1) * perDay, len); 7 places over 3
\* days have the sizes 3, 3, 1 and 4 places over 2 days the sizes 2, 2.
C10_BucketIsSlice ==
    (Returned /\ bDuration > 0) =>
        LET n == Len(bPlaces)
            perDay == CeilOf(n, bDuration)
        IN  /\ \A k \in 0..(bDuration - 1) :
                  dailyItinerary[k + 1] =
                      [i \in 1..(Min((k + 1) * perDay, n) - Min(k * perDay, n)) |->
                          bPlaces[Min(k * perDay, n) + i]]
            /\ (n = 7 /\ bDuration = 3) => BucketSizes = <<3, 3, 1>>
            /\ (n = 4 /\ bDuration = 2) => BucketSizes = <<2, 2>>

\* Seven places over three days.
C10_Witness ==
    /\ Returned
    /\ Len(bPlaces) = 7
    /\ bDuration = 3
    /\ BucketSizes = <<3, 3, 1>>

\* C22: a call with days <= 0 is rejected with an invalid-argument error for
\* every place list: it never returns, in particular not an empty sequence of
\* buckets that hides the places.
C22_NonPositiveDaysRejected == bDuration <= 0 => ~Returned



(***************************************************************************)
(* Claims about what a refinement stores and what an annotation changes    *)
(***************************************************************************)
\* C15: the list stored by a refinement has the places of the list the
\* service returned, in its order, and nothing else; read back, a place that
\* has no place of equal (name, description) in the list stored before has
\* notes "" and visited false.
C15_StoredListIsFreshList ==
    [][ChatPersisted =>
          LET old == InitializedPlaces(trips[chat.tripId].suggested_places)
              fresh == chat.refined
              new == InitializedPlaces(trips'[chat.tripId].suggested_places)
          IN  /\ Len(new) = Len(fresh)
              /\ \A i \in 1..Len(fresh) :
                    /\ new[i].name = fresh[i].name
                    /\ new[i].description = fresh[i].description
                    /\ new[i].time_to_visit = fresh[i].time_to_visit
                    /\ (\A j \in 1..Len(old) : ~SameKey(old[j], fresh[i])) =>
                          new[i].notes = "" /\ new[i].visited = FALSE]_vars

\* The trip generated as [A] was refined to [B, A].
C15_Witness ==
    /\ chatHistory = <<PromptTurn, Turn("model", "json", <<PlaceA>>), UserMessage, RefinedTurn>>
    /\ chat.pc = "idle"
    /\ trips[1].suggested_places = <<PlaceB, PlaceA>>

\* C16: a refinement whose fresh list equals the stored list leaves the
\* stored list as it was, both as the rows are and as they are read back
\* (name, description, time_to_visit, notes, visited).
C16_EqualListStoredUnchanged ==
    [][ChatPersisted =>
          LET stored == trips[chat.tripId].suggested_places
              after == trips'[chat.tripId].suggested_places
          IN  /\ chat.refined = stored => after = stored
              /\ InitializedPlaces(chat.refined) = InitializedPlaces(stored) =>
                    InitializedPlaces(after) = InitializedPlaces(stored)]_vars

\* The trip generated as [A, B] and never annotated was refined to [A, B].
C16_Witness ==
    /\ chatHistory = <<PromptTurn, Turn("model", "json", <<PlaceA, PlaceB>>), UserMessage,
                       RefinedTurn>>
    /\ chat.pc = "idle"
    /\ trip = NoTrip
    /\ trips[1].suggested_places = <<PlaceA, PlaceB>>

\* An annotation starts / its update settles without an error.
AnnotationStarts == annot.pc = "idle" /\ annot'.pc = "awaitUpdate"
AnnotationSaved == AnnotationSettled /\ error' = "none"

\* C17: the list an annotation writes has the length and the elements of
\* the list in memory but for one position, whose element keeps its fields
\* and differs in notes only or in visited only; that list is what is sent,
\* what the row holds after the write and what is in memory afterwards.
C17_AnnotationChangesOneField ==
    [][/\ AnnotationStarts =>
            LET old == trip.suggested_places
                new == annot'.newSuggestedPlaces
            IN  /\ Len(new) = Len(old)
                /\ annot'.request.body = new
                /\ \E i \in 1..Len(old) :
                      /\ \A j \in 1..Len(old) : j # i => new[j] = old[j]
                      /\ DOMAIN new[i] = DOMAIN old[i]
                      /\ \E f \in {"notes", "visited"} :
                            \A g \in DOMAIN old[i] : g # f => new[i][g] = old[i][g]
       /\ AnnotationSaved =>
            /\ trip'.id = trip.id
            /\ trip'.suggested_places = annot.newSuggestedPlaces
            /\ trips'[trip.id].suggested_places = annot.newSuggestedPlaces]_vars

\* The first of two places was marked visited and the second given a note.
C17_Witness ==
    /\ annot.pc = "idle"
    /\ error = "none"
    /\ Len(trip.suggested_places) = 2
    /\ trip.suggested_places[1].visited
    /\ trip.suggested_places[1].notes = ""
    /\ trip.suggested_places[2].notes = "n"
    /\ ~trip.suggested_places[2].visited
    /\ trips[trip.id].suggested_places = trip.suggested_places

\* In tab t an annotation's update settles without an error.
TabAnnotationSaved(t) ==
    /\ tabs[t].annot.pc = "awaitUpdate"
    /\ tabs'[t].annot.pc = "idle"
    /\ tabs'[t].error = "none"

\* C18: annotations of different places of a trip do not undo each other:
\* the write of an annotation leaves every stored place but its own as it
\* is stored when the write lands, so that after two annotation cycles on
\* different positions the stored list has both.
C18_ConcurrentAnnotationsKept ==
    [][\A t \in Tabs :
          TabAnnotationSaved(t) =>
              LET id == tabs[t].trip.id
                  before == InitializedPlaces(trips[id].suggested_places)
                  after == InitializedPlaces(trips'[id].suggested_places)
              IN  /\ Len(after) = Len(before)
                  /\ \A j \in 1..Len(before) :
                        j # tabs[t].annot.index => after[j] = before[j]]_vars

(***************************************************************************)
(* Claims about the conversation history                                   *)
(***************************************************************************)
GenerationStarts == gen.pc = "idle" /\ gen'.pc = "awaitGemini"
GenerationSaved == gen.pc = "awaitInsert" /\ gen'.pc = "idle" /\ trips' # trips

\* C19: a generation starts by emptying the history and sends the service
\* the instruction block alone; while it runs turns are only appended, so no
\* earlier turn comes back; and when it has saved its trip the history is
\* its prompt followed by the places it was given.
C19_GenerationResetsHistory ==
    [][/\ GenerationStarts =>
            /\ chatHistory' = <<>>
            /\ gen'.request.body = <<BasePromptTurn(<<>>)>>
       /\ (gen.pc # "idle" /\ gen'.pc # "idle" /\ chatHistory' # chatHistory) =>
            /\ Len(chatHistory') = Len(chatHistory) + 1
            /\ SubSeq(chatHistory', 1, Len(chatHistory)) = chatHistory
       /\ GenerationSaved =>
            chatHistory' = <<Turn("user", "prompt", <<>>), Turn("model", "json", gen.places)>>]_vars

\* A second plan was generated after the first had been refined.
C19_Witness ==
    /\ gen.pc = "idle"
    /\ chat.pc = "idle"
    /\ Len(trips) = 2
    /\ currentTripId = 2
    /\ trips[1].suggested_places = <<PlaceB>>
    /\ chatHistory = <<PromptTurn, Turn("model", "json", <<PlaceA, PlaceB>>)>>

\* The refinement calls the service in this step.
ChatCallsService == chat.pc = "awaitFetch" /\ chat'.pc = "awaitGemini"

\* C20: the turns a refinement sends to the service are the history as it
\* is when the call is made, in order, followed by the instruction block
\* alone; and the call leaves the history as it is.
C20_WholeHistoryIsSent ==
    [][ChatCallsService =>
          /\ chat'.request.body = Append(chatHistory, BasePromptTurn(chat'.latestPlaces))
          /\ chatHistory' = chatHistory]_vars

(***************************************************************************)
(* Claims about the map page                                               *)
(***************************************************************************)
Range(seq) == {seq[i] : i \in 1..Len(seq)}

\* Run r ends in this step.
RunEnds(r) == InProgress(runs[r]) /\ runs'[r].pc = "done"
\* Run r sends its request to the routing service in this step.
RunRequestsRoute(r) == runs[r].pc # "routing" /\ runs'[r].pc = "routing"

\* What the run geocodes, in the order of the itinerary.
Itinerary ==
    (IF mapTrip.starting_point # "" THEN <<AddressOf(mapTrip.starting_point)>> ELSE <<>>)
    \o <<AddressOf(mapTrip.destination)>>
    \o [i \in 1..Len(mapTrip.suggested_places) |->
          FullAddress(mapTrip.suggested_places[i], mapTrip.destination)]

\* The positions of the addresses of the itinerary that the run resolved.
ResolvedPositions(run) ==
    LET resolved == SelectSeq(Itinerary, LAMBDA a : a \notin Range(run.skipped))
    IN  [i \in 1..Len(resolved) |-> <<LatOf(resolved[i]), LonOf(resolved[i])>>]

PositionsOf(ms) == [i \in 1..Len(ms) |-> ms[i].position]

\* C11: a run whose destination is not geocoded ends with the destination
\* error as the only message, with no marker shown (whatever the starting
\* point gave and whatever an earlier run had shown) and with no request
\* sent to the routing service.
C11_NoMarkersWithoutDestination ==
    [][\A r \in Runs :
          (RunEnds(r) /\ runs[r].pc = "geoDest" /\ runs'[r].outcome # "ready") =>
              /\ runs'[r].outcome = "destinationUnresolved"
              /\ mapError' = <<Message("destination", <<>>)>>
              /\ markers' = <<>>
              /\ runs'[r].request = NoOrsRequest]_vars

\* C12: a run whose destination is geocoded ends ready; the markers shown
\* when it ends are, in the order of the itinerary, those of the addresses
\* that resolved; and every address skipped has its message in mapError.
C12_SkippedPlacesAreWarned ==
    [][\A r \in Runs :
          (RunEnds(r) /\ runs'[r].outcome # "destinationUnresolved") =>
              /\ runs'[r].outcome = "ready"
              /\ PositionsOf(markers') = ResolvedPositions(runs'[r])
              /\ \A a \in Range(runs'[r].skipped) :
                    Message("notFound", a) \in Range(mapError')]_vars

\* C13: the coordinates sent to the routing service are, one for one and in
\* the same order, the positions of the markers set (starting point,
\* destination, places, as <<latitude, longitude>>) with the two axes
\* exchanged; and a route drawn is the geometry returned with the axes
\* exchanged back.
C13_RouteCoordinatesFollowMarkers ==
    [][\A r \in Runs :
          /\ RunRequestsRoute(r) =>
                LET sent == runs'[r].request.coordinates
                IN  /\ Len(sent) = Len(markers')
                    /\ PositionsOf(markers') = ResolvedPositions(runs'[r])
                    /\ runs'[r].placeCoordinates = PositionsOf(markers')
                    /\ \A i \in 1..Len(sent) :
                          sent[i] = <<markers'[i].position[2], markers'[i].position[1]>>
          /\ (RunEnds(r) /\ runs[r].pc = "routing" /\ runs'[r].orsReply = "route") =>
                LET geometry == runs[r].request.coordinates
                IN  /\ Len(routeCoordinates') = Len(geometry)
                    /\ \A i \in 1..Len(geometry) :
                          routeCoordinates'[i] = <<geometry[i][2], geometry[i][1]>>]_vars

\* A route over the starting point, the destination and the second of two
\* places, the first having been skipped.
C13_Witness ==
    /\ runs[1].pc = "done"
    /\ runs[1].orsReply = "route"
    /\ Len(runs[1].skipped) = 1
    /\ Len(markers) = 3
    /\ markers[1].position = <<10, 15>>
    /\ runs[1].request.coordinates = <<<<15, 10>>, <<25, 20>>, <<45, 40>>>>
    /\ routeCoordinates = PositionsOf(markers)

\* C14: a run whose destination is geocoded ends ready whatever the routing
\* gives: with the routing key missing or fewer than two coordinates it sets
\* its markers and an empty route without a request; a request is sent with
\* the run's markers set; and a reply that is an error or has no geometry
\* leaves the markers as they are and sets an empty route.
C14_RoutingFailureNotFatal ==
    [][\A r \in Runs :
          /\ (RunEnds(r) /\ runs[r].pc # "routing" /\ runs'[r].outcome = "ready") =>
                /\ ~orsApiKey \/ Len(runs'[r].placeCoordinates) < 2
                /\ markers' = runs'[r].newMarkers
                /\ routeCoordinates' = <<>>
                /\ ~loadingMapData'
          /\ RunRequestsRoute(r) => markers' = runs'[r].newMarkers
          /\ (RunEnds(r) /\ runs[r].pc = "routing") =>
                /\ runs'[r].outcome = "ready"
                /\ markers' = markers
                /\ ~loadingMapData'
                /\ runs'[r].orsReply # "route" => routeCoordinates' = <<>>
          /\ (RunEnds(r) /\ runs[r].pc # "geoDest") => runs'[r].outcome = "ready"]_vars

\* The routing service answered with an error: three markers and no route.
C14_Witness ==
    /\ runs[1].pc = "done"
    /\ runs[1].outcome = "ready"
    /\ runs[1].orsReply = "httpError"
    /\ Len(markers) = 3
    /\ routeCoordinates = <<>>
    /\ ~loadingMapData

(***************************************************************************)
(* Claims about the planning form                                          *)
(***************************************************************************)
\* A form that is incomplete or invalid: no signed-in user, a missing
\* starting point, destination, travel date or duration, or no interest.
Incomplete(form) == \E f \in DOMAIN form : form[f] = <<>>

\* What a step sends: a request of a handler that was not running before.
IssuesRequest ==
    \/ gen'.request # NoRequest /\ gen'.request # gen.request
    \/ chat'.request # NoRequest /\ chat'.request # chat.request
    \/ inFlight' # inFlight

\* C21: a generation attempt on an incomplete or invalid form ends with a
\* form error message, and it sends nothing: no request to the generative
\* service, no insert, and the table is as it was.
C21_InvalidFormSendsNothing ==
    [][\A form \in Forms :
         (~loadingPlan /\ Incomplete(form) /\ handleGeneratePlan(form))
         => /\ formMessageType' = "error"
            /\ formMessage' \in {"login", "details", "interests"}
            /\ ~loadingPlan'
            /\ ~IssuesRequest
            /\ gen' = gen
            /\ trips' = trips]_vars

\* A form without interests was rejected while a trip was current.
C21_Witness ==
    /\ formMessage = "interests"
    /\ formMessageType = "error"
    /\ currentTripId # 0
    /\ gen.pc = "idle"

\* C27: when no generation and no refinement is running, a trip is current
\* and places are displayed, the places displayed are the places stored for
\* the current trip.
C27_DisplayedIsStored ==
    (gen.pc = "idle" /\ chat.pc = "idle" /\ currentTripId # 0 /\ suggestedPlaces # <<>>)
    => suggestedPlaces = trips[currentTripId].suggested_places

\* C28: a generation attempt that does not produce a plan leaves the places
\* displayed, the conversation history and the current trip as they were
\* before the attempt; here for the attempt rejected by the checks of the
\* form, whose one step is the whole attempt.
C28_RejectedAttemptChangesNothing ==
    [][\A form \in Forms :
         (~loadingPlan /\ Incomplete(form) /\ handleGeneratePlan(form))
         => UNCHANGED <<suggestedPlaces, chatHistory, currentTripId>>]_vars

\* The rows of the table that a step leaves as they are.
RowsKept(ids) == \A id \in ids : id \in 1..Len(trips') /\ trips'[id] = trips[id]

RefinementSaved == chat.pc = "awaitUpdate" /\ chat'.pc = "idle" /\ trips' # trips

\* C29: a generation that succeeds inserts one row, owned by the user, makes
\* it the current trip and leaves every row stored before as it was; a
\* refinement changes the place list of the current trip and nothing else in
\* the table; no other step of the planning page changes the table.
C29_InsertAndUpdateFrame ==
    [][/\ GenerationSaved =>
            /\ Len(trips') = Len(trips) + 1
            /\ RowsKept(1..Len(trips))
            /\ trips'[Len(trips')].user_id = User
            /\ currentTripId' = trips'[Len(trips')].id
       /\ RefinementSaved =>
            /\ Len(trips') = Len(trips)
            /\ RowsKept((1..Len(trips)) \ {currentTripId})
            /\ currentTripId \in 1..Len(trips)
            /\ trips'[currentTripId] =
                   [trips[currentTripId] EXCEPT
                      !.suggested_places = trips'[currentTripId].suggested_places]
       /\ (~GenerationSaved /\ ~RefinementSaved) => trips' = trips]_vars

(***************************************************************************)
(* Claims about the trip page's annotations                                *)
(***************************************************************************)
ValidIndex(index) == index \in 1..Len(trip.suggested_places)

C26_AnnotationAtOwnPosition ==
    [][\A shown \in 1..Len(trip.suggested_places), currentNote \in NoteTexts :
         (~savingNotes /\ (SaveNoteShown(shown, currentNote) \/ VisitedToggleShown(shown)))
         => /\ Len(annot'.request.body) = Len(trip.suggested_places)
            /\ \A i \in 1..Len(trip.suggested_places) :
                  i # shown => annot'.request.body[i] = trip.suggested_places[i]]_vars

AnnotationFailed == AnnotationSettled /\ error' # "none"

\* C30: when the write of an annotation fails, by an error result or an
\* exception, the place list in memory is unchanged and an error message is
\* recorded; the list in memory changes only when a write has succeeded (or
\* the trip is loaded), and then to the list written; and the saving flag
\* always returns to false.
C30_FailedWriteKeepsList ==
    /\ [][/\ AnnotationSettled => (error' = "none" \/ (trip' = trip /\ trips' = trips))
          /\ AnnotationFailed => error' \in {"saveFailed", "unexpected"}
          /\ trip' # trip =>
                \/ /\ AnnotationSaved
                   /\ trip'.id = trip.id
                   /\ trip'.suggested_places = annot.request.body
                   /\ trips'[trip.id].suggested_places = trip'.suggested_places
                \/ /\ annot.pc = "idle"
                   /\ trip'.suggested_places =
                         InitializedPlaces(trips[trip'.id].suggested_places)
          /\ AnnotationSettled => ~savingNotes']_vars
    /\ (savingNotes ~> ~savingNotes)

\* The save of a note was answered by an exception: the note is not in the
\* list in memory and the message is shown.
C30_Witness ==
    /\ error = "unexpected"
    /\ ~savingNotes
    /\ annot.pc = "idle"
    /\ trip.id # 0
    /\ \A i \in 1..Len(trip.suggested_places) : trip.suggested_places[i].notes = ""

(***************************************************************************)
(* Claims about the end of a map run                                       *)
(***************************************************************************)
\* The geocoding calls of a run that have finished, and the calls a run makes
\* when it is not cut short: the starting point if there is one, the
\* destination and every suggested place.
GeocodingCalls(run) == Len(run.newMarkers) + Len(run.skipped)
AllGeocodingCalls ==
    (IF mapTrip.starting_point # "" THEN 1 ELSE 0) + 1 + Len(mapTrip.suggested_places)

\* How far a run is: every step of a run brings it further.
Rank(run) ==
    IF run.pc = "idle" THEN 0
    ELSE IF run.pc = "geoStart" THEN 1
    ELSE IF run.pc = "geoDest" THEN 2
    ELSE IF run.pc = "geoPlace" THEN 2 + run.index
    ELSE IF run.pc = "routing" THEN 3 + Len(mapTrip.suggested_places)
    ELSE 4 + Len(mapTrip.suggested_places)

\* C25: every run that starts finishes: each of its steps brings it further,
\* and it ends READY, after all its geocoding calls and, with two coordinates
\* or more, after the call for the route (with a key, the fetch), or it ends
\* at the destination that was not resolved; the in-progress indicator is
\* cleared at either end, and the route is asked for only after all the
\* geocoding calls of the run.
C25_EveryRunFinishes ==
    /\ [][\A r \in Runs :
            /\ (InProgress(runs[r]) /\ runs'[r] # runs[r]) => Rank(runs'[r]) > Rank(runs[r])
            /\ RunEnds(r) =>
                  /\ ~loadingMapData'
                  /\ runs'[r].outcome \in {"ready", "destinationUnresolved"}
                  /\ runs'[r].outcome = "ready" =>
                        /\ GeocodingCalls(runs'[r]) = AllGeocodingCalls
                        /\ runs[r].pc # "routing" => markers' = runs'[r].newMarkers
                        /\ \/ runs[r].pc = "routing"
                           \/ Len(runs'[r].placeCoordinates) < 2
                           \/ ~orsApiKey
                  /\ runs'[r].outcome = "destinationUnresolved" =>
                        /\ runs[r].pc = "geoDest"
                        /\ mapTrip.destination \notin {m.text : m \in Range(runs'[r].newMarkers)}
            /\ RunRequestsRoute(r) =>
                  /\ GeocodingCalls(runs'[r]) = AllGeocodingCalls
                  /\ markers' = runs'[r].newMarkers
                  /\ Len(runs'[r].placeCoordinates) >= 2]_vars
    /\ \A r \in Runs : InProgress(runs[r]) ~> runs[r].pc = "done"

\* A run over a trip with a starting point and two places has ended READY
\* after its routing call.
C25_Witness ==
    /\ runs[1].pc = "done"
    /\ runs[1].outcome = "ready"
    /\ runs[1].orsReply # "none"
    /\ GeocodingCalls(runs[1]) = 4
    /\ ~loadingMapData

====
